---- MODULE Spec2Model ----
(***************************************************************************)
(* Model of virus-dynamics.py: SimpleVirus / ResistantVirus particles and  *)
(* the Patient / TreatedPatient hosts that advance a population one time   *)
(* step at a time.                                                         *)
(*                                                                         *)
(* Numbers.  A probability p (maxBirthProb, clearProb, mutProb) is the     *)
(* integer numerator of p/Den.  A value of random.random() is a numerator  *)
(* d in 0..Den-1 standing for d/Den, so the draws range over [0,1) and     *)
(* include 0.0, as random.random() does.  popDensity and repProb are exact *)
(* rationals [num, den] with den > 0.                                      *)
(*                                                                         *)
(* Objects.  Every particle carries the identity `id` of its Python        *)
(* object; list.remove() and the call logs go by that identity.            *)
(***************************************************************************)
EXTENDS Integers, Sequences, FiniteSets, TLC

\* ---------------------------------------------------------------- bounds
Den == 2              \* resolution of the uniform draws
MaxNumViruses == 2    \* largest initial cohort (numViruses)
MaxSimpleObjects == 6     \* SimpleVirus objects of one run, founders included
MaxResistantObjects == 4  \* ResistantVirus objects of one run, founders included

Draws == 0 .. (Den - 1)
Probs == {0, Den}
MaxPops == (-1) .. MaxNumViruses
Drugs == {"oseltamivir", "zanamivir"}
Hosts == {"Patient", "TreatedPatient"}

\* ------------------------------------------------------- python values
\* An optional value: <<>> is None, <<x>> is x.
None == << >>
Some(x) == << x >>

\* Python truthiness of the result of dict.get(): None and False are falsy.
Truthy(opt) == opt = Some(TRUE)

\* int / int (true division), kept as an exact rational with den > 0.
\* The divisor is not zero here; update() raises before calling it.
TrueDiv(n, m) ==
    IF m > 0 THEN [num |-> n, den |-> m] ELSE [num |-> -n, den |-> -m]

\* comparisons of rationals with positive denominators
RatEq(a, b) == a.num * b.den = b.num * a.den
RatGeqOne(a) == a.num >= a.den

\* ------------------------------------------------------------ particles
\* SimpleVirus.__init__
SimpleVirus(i, maxBirthProb, clearProb) ==
    [id |-> i, maxBirthProb |-> maxBirthProb, clearProb |-> clearProb]

\* ResistantVirus.__init__
ResistantVirus(i, maxBirthProb, clearProb, resistancesId, resistances, mutProb) ==
    [id |-> i, maxBirthProb |-> maxBirthProb, clearProb |-> clearProb,
     resistancesId |-> resistancesId, resistances |-> resistances,
     mutProb |-> mutProb]

\* mutant of doesClear: the comparison is the wrong way round
doesClearReversed(virus, d) == d >= virus.clearProb

\* SimpleVirus.doesClear with the value d of random.random()
doesClear(virus, d) == d <= virus.clearProb

\* repProb = self.getMaxBirthProb() * (1 - popDensity)
repProb(virus, popDensity) ==
    [num |-> virus.maxBirthProb * (popDensity.den - popDensity.num),
     den |-> Den * popDensity.den]

\* random.random() <= repProb, for the draw d
DrawLeqRepProb(d, rp) == d * rp.den <= rp.num * Den

\* SimpleVirus.reproduce: the offspring, or None for NoChildException
SimpleReproduce(virus, popDensity, d, childId) ==
    IF DrawLeqRepProb(d, repProb(virus, popDensity))
    THEN Some(SimpleVirus(childId, virus.maxBirthProb, virus.clearProb))
    ELSE None

\* mutant of isResistantTo: the lookup has the default False
isResistantToDefaultFalse(virus, drug) ==
    IF drug \in DOMAIN virus.resistances
    THEN Some(virus.resistances[drug])
    ELSE Some(FALSE)

\* mutant of isResistantTo: the lookup has the default True
isResistantToDefaultTrue(virus, drug) ==
    IF drug \in DOMAIN virus.resistances
    THEN Some(virus.resistances[drug])
    ELSE Some(TRUE)

\* ResistantVirus.isResistantTo: self.resistances.get(drug)
isResistantTo(virus, drug) ==
    IF drug \in DOMAIN virus.resistances
    THEN Some(virus.resistances[drug])
    ELSE None

\* mutant of drugsAreEffective: every iteration overwrites the flag, so the
\* last drug of the list decides
RECURSIVE drugsAreEffectiveLastDecides(_, _, _)
drugsAreEffectiveLastDecides(virus, activeDrugs, flag) ==
    IF activeDrugs = << >> THEN flag
    ELSE drugsAreEffectiveLastDecides(virus, Tail(activeDrugs),
            ~Truthy(isResistantTo(virus, Head(activeDrugs))))

\* the loop of ResistantVirus.reproduce that sets drugsAreEffective
RECURSIVE drugsAreEffective(_, _, _)
drugsAreEffective(virus, activeDrugs, flag) ==
    IF activeDrugs = << >> THEN flag
    ELSE drugsAreEffective(virus, Tail(activeDrugs),
            IF ~Truthy(isResistantTo(virus, Head(activeDrugs)))
            THEN TRUE ELSE flag)

\* mutant of Mutates: the comparison is the wrong way round
MutatesReversed(d, mutProb) == d >= mutProb

\* random.random() <= self.getMutProb(), for the draw d
Mutates(d, mutProb) == d <= mutProb

\* newResistances after the mutation loop; m[drug] is the draw for that key
newResistances(virus, m) ==
    [drug \in DOMAIN virus.resistances |->
        IF Mutates(m[drug], virus.mutProb)
        THEN ~virus.resistances[drug]
        ELSE virus.resistances[drug]]

\* mutant of copy: no new dictionary, the same object is handed back
copyIsSameObject(resistancesId, newId) == resistancesId

\* self.getResistances().copy(): the identity of the dictionary that the
\* mutation loop writes to and the offspring keeps; newId is a fresh object
copy(resistancesId, newId) == newId

\* mutant of ResistantChild: the first two constructor arguments are swapped
ResistantChildSwapsProbs(virus, m, childId) ==
    ResistantVirus(childId, virus.clearProb, virus.maxBirthProb,
                   copy(virus.resistancesId, childId),
                   newResistances(virus, m), virus.mutProb)

\* the offspring built by ResistantVirus.reproduce
ResistantChild(virus, m, childId) ==
    ResistantVirus(childId, virus.maxBirthProb, virus.clearProb,
                   copy(virus.resistancesId, childId),
                   newResistances(virus, m), virus.mutProb)

\* the writes "newResistances[drug] = not newResistances[drug]" as the
\* particles of a list see them: a particle whose trait map is the very
\* dictionary written to reads the written values from then on
MutationWrites(list, child) ==
    IF child = None \/ "resistancesId" \notin DOMAIN child[1] THEN list
    ELSE [k \in DOMAIN list |->
            IF list[k].resistancesId = child[1].resistancesId
            THEN [list[k] EXCEPT !.resistances = child[1].resistances]
            ELSE list[k]]

\* mutant of ResistantReproduces: drugsAreEffective starts as True, so an
\* empty activeDrugs list blocks
ResistantReproducesGateStartsTrue(virus, popDensity, activeDrugs, d) ==
    /\ ~drugsAreEffective(virus, activeDrugs, TRUE)
    /\ DrawLeqRepProb(d, repProb(virus, popDensity))

\* ResistantVirus.reproduce up to the mutation loop: the gate lets the call
\* through and random.random() <= repProb
ResistantReproduces(virus, popDensity, activeDrugs, d) ==
    /\ ~drugsAreEffective(virus, activeDrugs, FALSE)
    /\ DrawLeqRepProb(d, repProb(virus, popDensity))

\* ResistantVirus.reproduce: the offspring, or None for NoChildException
ResistantReproduce(virus, popDensity, activeDrugs, d, m, childId) ==
    IF ResistantReproduces(virus, popDensity, activeDrugs, d)
    THEN Some(ResistantChild(virus, m, childId))
    ELSE None

\* ---------------------------------------------------------------- lists
\* list.remove(x): drops the first element that is the object x
RECURSIVE ListRemove(_, _)
ListRemove(list, x) ==
    IF list = << >> THEN << >>
    ELSE IF Head(list).id = x.id THEN Tail(list)
         ELSE << Head(list) >> \o ListRemove(Tail(list), x)

\* the loop of TreatedPatient.getResistPop over drugResist for one virus
RECURSIVE virusIsResistant(_, _, _)
virusIsResistant(virus, drugResist, flag) ==
    IF drugResist = << >> THEN flag
    ELSE virusIsResistant(virus, Tail(drugResist),
            IF ~Truthy(isResistantTo(virus, Head(drugResist)))
            THEN FALSE ELSE flag)

\* mutant of getResistPop: the test len(drugResist) > 0 is left out
RECURSIVE getResistPopCountsAllForEmpty(_, _, _)
getResistPopCountsAllForEmpty(list, drugResist, numResistantViruses) ==
    IF list = << >> THEN numResistantViruses
    ELSE getResistPopCountsAllForEmpty(Tail(list), drugResist,
            IF virusIsResistant(Head(list), drugResist, TRUE)
            THEN numResistantViruses + 1
            ELSE numResistantViruses)

\* TreatedPatient.getResistPop
RECURSIVE getResistPop(_, _, _)
getResistPop(list, drugResist, numResistantViruses) ==
    IF list = << >> THEN numResistantViruses
    ELSE getResistPop(Tail(list), drugResist,
            IF Len(drugResist) > 0
               /\ virusIsResistant(Head(list), drugResist, TRUE)
            THEN numResistantViruses + 1
            ELSE numResistantViruses)

\* ---------------------------------------------------------------- state
VARIABLES
    host,              \* class of the host object
    viruses,           \* self.viruses
    maxPop,            \* self.maxPop
    prescriptions,     \* self.prescriptions (TreatedPatient)
    pc,                \* "ready" between calls, the phase inside update(),
                       \* "returned" when a call has just ended
    viruses_survived,  \* local of update()
    idx,               \* position of the running for loop of update()
    popDensity,        \* local of update()
    viruses_produced,  \* local of update()
    nextId,            \* identity of the next object created
    founders,          \* history: the cohort the host was constructed with
    parent,            \* history: offspring id -> id of its parent
    pre,               \* history: self.viruses when the running update() began
    clearCalls,        \* history: doesClear calls of the running/last update()
    reproduceCalls,    \* history: reproduce calls of the running/last update()
    ret                \* history: outcome of the last call on the host

vars == << host, viruses, maxPop, prescriptions, pc, viruses_survived, idx,
           popDensity, viruses_produced, nextId, founders, parent,
           pre, clearCalls, reproduceCalls, ret >>

locals == << viruses_survived, idx, popDensity, viruses_produced >>
logs == << pre, clearCalls, reproduceCalls >>

NoDensity == [num |-> 0, den |-> 1]
NoRet == [op |-> "none", arg |-> << >>, status |-> "none", value |-> 0]

ResistanceMaps == UNION { [K -> BOOLEAN] : K \in SUBSET Drugs }

\* a list of numViruses SimpleVirus objects for Patient(viruses, maxPop);
\* the particles need not have the same parameters
SimpleCohort(numViruses, maxBirthProb, clearProb) ==
    [i \in 1 .. numViruses |-> SimpleVirus(i, maxBirthProb[i], clearProb[i])]

\* the one dictionary simulationWithDrug hands to every constructor call
SharedResistancesId == 0

\* simulationWithDrug: numViruses ResistantVirus(maxBirthProb, clearProb,
\* resistances, mutProb), every one of them holding the same dictionary
ResistantCohort(numViruses, maxBirthProb, clearProb, resistances, mutProb) ==
    [i \in 1 .. numViruses |->
        ResistantVirus(i, maxBirthProb, clearProb, SharedResistancesId,
                       resistances, mutProb)]

\* Patient.__init__ / TreatedPatient.__init__: the arguments are stored as
\* they are; nothing is validated.
Init ==
    /\ host \in Hosts
    /\ maxPop \in MaxPops
    /\ \E numViruses \in 0 .. MaxNumViruses :
          IF host = "Patient"
          THEN \E maxBirthProb \in [1 .. numViruses -> Probs],
                  clearProb \in [1 .. numViruses -> Probs] :
                  viruses = SimpleCohort(numViruses, maxBirthProb, clearProb)
          ELSE \E maxBirthProb \in Probs, clearProb \in Probs,
                  resistances \in ResistanceMaps, mutProb \in Probs :
                  viruses = ResistantCohort(numViruses, maxBirthProb,
                                            clearProb, resistances, mutProb)
    /\ prescriptions = << >>
    /\ pc = "ready"
    /\ viruses_survived = << >>
    /\ idx = 0
    /\ popDensity = NoDensity
    /\ viruses_produced = << >>
    /\ nextId = Len(viruses) + 1
    /\ founders = viruses
    /\ parent = << >>
    /\ pre = << >>
    /\ clearCalls = << >>
    /\ reproduceCalls = << >>
    /\ ret = NoRet

\* ------------------------------------------------------------- update()
Returned(op, arg, value) ==
    [op |-> op, arg |-> arg, status |-> "returned", value |-> value]
Raised(op, arg, exception) ==
    [op |-> op, arg |-> arg, status |-> exception, value |-> 0]

\* the frame of update() is gone once the call has returned or raised
LocalsGone ==
    /\ viruses_survived' = << >>
    /\ idx' = 0
    /\ popDensity' = NoDensity
    /\ viruses_produced' = << >>

\* a run stops calling update() when the next step could create more
\* objects than the bound of its particle class
MaxObjects == IF host = "Patient" THEN MaxSimpleObjects ELSE MaxResistantObjects

\* update() is entered: viruses_survived = self.getViruses()[:]
UpdateBegin ==
    /\ pc = "ready"
    /\ (nextId - 1) + Len(viruses) <= MaxObjects
    /\ viruses_survived' = viruses
    /\ idx' = 1
    /\ pc' = "clearance"
    /\ pre' = viruses
    /\ UNCHANGED << host, viruses, maxPop, prescriptions, popDensity,
                    viruses_produced, nextId, founders, parent, clearCalls,
                    reproduceCalls, ret >>

\* one iteration of "for virus in self.getViruses(): if virus.doesClear():
\* viruses_survived.remove(virus)"
ClearanceStep ==
    /\ pc = "clearance"
    /\ idx <= Len(viruses)
    /\ \E d \in Draws :
          LET virus == viruses[idx]
              cleared == doesClear(virus, d)
          IN  /\ viruses_survived' =
                    IF cleared THEN ListRemove(viruses_survived, virus)
                    ELSE viruses_survived
              /\ clearCalls' =
                    Append(clearCalls, [virus |-> virus.id, cleared |-> cleared])
    /\ idx' = idx + 1
    /\ UNCHANGED << host, viruses, maxPop, prescriptions, pc, popDensity,
                    viruses_produced, nextId, founders, parent, pre,
                    reproduceCalls, ret >>

\* mutant of ClearanceEnd: the assignment self.viruses = viruses_survived
\* is left out, so the cleared particles stay in the population
ClearanceEndKeepsCleared ==
    /\ pc = "clearance"
    /\ idx > Len(viruses)
    /\ pc' = "density"
    /\ UNCHANGED << host, viruses, maxPop, prescriptions, viruses_survived,
                    idx, popDensity, viruses_produced, nextId, founders,
                    parent, pre, clearCalls, reproduceCalls, ret >>

\* the clearance loop is over: self.viruses = viruses_survived
ClearanceEnd ==
    /\ pc = "clearance"
    /\ idx > Len(viruses)
    /\ viruses' = viruses_survived
    /\ pc' = "density"
    /\ UNCHANGED << host, maxPop, prescriptions, viruses_survived, idx,
                    popDensity, viruses_produced, nextId, founders,
                    parent, pre, clearCalls, reproduceCalls, ret >>

\* popDensity = self.getTotalPop() / self.getMaxPop(); viruses_produced = []
ComputeDensity ==
    /\ pc = "density"
    /\ maxPop # 0
    /\ popDensity' = TrueDiv(Len(viruses), maxPop)
    /\ viruses_produced' = << >>
    /\ idx' = 1
    /\ pc' = "reproduction"
    /\ UNCHANGED << host, viruses, maxPop, prescriptions, viruses_survived,
                    nextId, founders, parent, pre, clearCalls,
                    reproduceCalls, ret >>

\* mutant of DivisionByZero: the operands of the division are swapped, so it
\* is the empty population that raises
DivisionByZeroOnEmptyPopulation ==
    /\ pc = "density"
    /\ Len(viruses) = 0
    /\ pc' = "returned"
    /\ ret' = Raised("update", << >>, "ZeroDivisionError")
    /\ LocalsGone
    /\ UNCHANGED << host, viruses, maxPop, prescriptions, nextId,
                    founders, parent, pre, clearCalls, reproduceCalls >>

\* the same line with self.getMaxPop() = 0: the division raises
\* ZeroDivisionError, which update() does not catch
DivisionByZero ==
    /\ pc = "density"
    /\ maxPop = 0
    /\ pc' = "returned"
    /\ ret' = Raised("update", << >>, "ZeroDivisionError")
    /\ LocalsGone
    /\ UNCHANGED << host, viruses, maxPop, prescriptions, nextId,
                    founders, parent, pre, clearCalls, reproduceCalls >>

\* mutant of Reproduced: popDensity is computed again after every call,
\* counting the offspring staged so far
ReproducedRecomputingDensity(virus, activeDrugs, child) ==
    /\ viruses' = MutationWrites(viruses, child)
    /\ viruses_survived' = MutationWrites(viruses_survived, child)
    /\ viruses_produced' =
          IF child = None THEN viruses_produced
          ELSE Append(MutationWrites(viruses_produced, child), child[1])
    /\ popDensity' = TrueDiv(Len(viruses) + Len(viruses_produced'), maxPop)
    /\ nextId' = IF child = None THEN nextId ELSE nextId + 1
    /\ parent' = IF child = None THEN parent
                 ELSE parent @@ (child[1].id :> virus.id)
    /\ reproduceCalls' =
          Append(reproduceCalls,
                 [virus |-> virus, popDensity |-> popDensity,
                  activeDrugs |-> activeDrugs, child |-> child])
    /\ idx' = idx + 1
    /\ UNCHANGED << host, maxPop, prescriptions, pc, founders, pre,
                    clearCalls, ret >>

\* what one iteration of the reproduction loop does with the result of
\* virus.reproduce(...): append the offspring, or pass on NoChildException
Reproduced(virus, activeDrugs, child) ==
    /\ viruses' = MutationWrites(viruses, child)
    /\ viruses_survived' = MutationWrites(viruses_survived, child)
    /\ viruses_produced' =
          IF child = None THEN viruses_produced
          ELSE Append(MutationWrites(viruses_produced, child), child[1])
    /\ nextId' = IF child = None THEN nextId ELSE nextId + 1
    /\ parent' = IF child = None THEN parent
                 ELSE parent @@ (child[1].id :> virus.id)
    /\ reproduceCalls' =
          Append(reproduceCalls,
                 [virus |-> virus, popDensity |-> popDensity,
                  activeDrugs |-> activeDrugs, child |-> child])
    /\ idx' = idx + 1
    /\ UNCHANGED << host, maxPop, prescriptions, pc, popDensity, founders,
                    pre, clearCalls, ret >>

\* Patient.update: one iteration of "for virus in self.getViruses():
\* viruses_produced.append(virus.reproduce(popDensity))"
PatientReproductionStep ==
    /\ pc = "reproduction"
    /\ host = "Patient"
    /\ idx <= Len(viruses)
    /\ \E d \in Draws :
          Reproduced(viruses[idx], << >>,
                     SimpleReproduce(viruses[idx], popDensity, d, nextId))

\* TreatedPatient.update: one iteration of "for virus in self.getViruses():
\* viruses_produced.append(virus.reproduce(popDensity,
\* self.getPrescriptions()))"
TreatedPatientReproductionStep ==
    /\ pc = "reproduction"
    /\ host = "TreatedPatient"
    /\ idx <= Len(viruses)
    /\ \E d \in Draws, m \in [DOMAIN viruses[idx].resistances -> Draws] :
          Reproduced(viruses[idx], prescriptions,
                     ResistantReproduce(viruses[idx], popDensity,
                                        prescriptions, d, m, nextId))

\* self.viruses += viruses_produced; return self.getTotalPop()
Commit ==
    /\ pc = "reproduction"
    /\ idx > Len(viruses)
    /\ viruses' = viruses \o viruses_produced
    /\ ret' = Returned("update", << >>, Len(viruses'))
    /\ pc' = "returned"
    /\ LocalsGone
    /\ UNCHANGED << host, maxPop, prescriptions, nextId, founders,
                    parent, pre, clearCalls, reproduceCalls >>

\* --------------------------------------------- TreatedPatient operations
\* mutant of AddPrescription: the test "newDrug not in" is left out
AddPrescriptionAlwaysAppends ==
    /\ pc = "ready"
    /\ host = "TreatedPatient"
    /\ \E newDrug \in Drugs :
          /\ prescriptions' = Append(prescriptions, newDrug)
          /\ ret' = Returned("addPrescription", << newDrug >>, 0)
    /\ pc' = "returned"
    /\ UNCHANGED << host, viruses, maxPop, locals, nextId, founders, parent,
                    logs >>

\* mutant of AddPrescription: the new drug replaces the list
AddPrescriptionReplaces ==
    /\ pc = "ready"
    /\ host = "TreatedPatient"
    /\ \E newDrug \in Drugs :
          /\ prescriptions' = << newDrug >>
          /\ ret' = Returned("addPrescription", << newDrug >>, 0)
    /\ pc' = "returned"
    /\ UNCHANGED << host, viruses, maxPop, locals, nextId, founders, parent,
                    logs >>

\* TreatedPatient.addPrescription
AddPrescription ==
    /\ pc = "ready"
    /\ host = "TreatedPatient"
    /\ \E newDrug \in Drugs :
          /\ prescriptions' =
                IF \A k \in DOMAIN prescriptions : prescriptions[k] # newDrug
                THEN Append(prescriptions, newDrug)
                ELSE prescriptions
          /\ ret' = Returned("addPrescription", << newDrug >>, 0)
    /\ pc' = "returned"
    /\ UNCHANGED << host, viruses, maxPop, locals, nextId, founders, parent,
                    logs >>

DrugLists == UNION { [1 .. n -> Drugs] : n \in 0 .. Cardinality(Drugs) }

\* a call of TreatedPatient.getResistPop(drugResist)
GetResistPop ==
    /\ pc = "ready"
    /\ host = "TreatedPatient"
    /\ \E drugResist \in DrugLists :
          ret' = Returned("getResistPop", drugResist,
                          getResistPop(viruses, drugResist, 0))
    /\ pc' = "returned"
    /\ UNCHANGED << host, viruses, maxPop, prescriptions, locals, nextId,
                    founders, parent, logs >>

\* the caller has the outcome of the call and goes on to its next call
\* (the loops of simulationWithoutDrug and simulationWithDrug)
Resume ==
    /\ pc = "returned"
    /\ pc' = "ready"
    /\ ret' = NoRet
    /\ pre' = << >>
    /\ clearCalls' = << >>
    /\ reproduceCalls' = << >>
    /\ UNCHANGED << host, viruses, maxPop, prescriptions, locals, nextId,
                    founders, parent >>

Next ==
    \/ UpdateBegin
    \/ ClearanceStep
    \/ ClearanceEnd
    \/ ComputeDensity
    \/ DivisionByZero
    \/ PatientReproductionStep
    \/ TreatedPatientReproductionStep
    \/ Commit
    \/ AddPrescription
    \/ GetResistPop
    \/ Resume

Spec == Init /\ [][Next]_vars

\* ------------------------------------------- calls on a single particle
\* a call of isResistantTo(drug) on the particle at position k of the
\* population
IsResistantTo ==
    /\ pc = "ready"
    /\ host = "TreatedPatient"
    /\ \E k \in DOMAIN viruses, drug \in Drugs :
          ret' = Returned("isResistantTo", << k, drug >>,
                          isResistantTo(viruses[k], drug))
    /\ pc' = "returned"
    /\ UNCHANGED << host, viruses, maxPop, prescriptions, locals, nextId,
                    founders, parent, logs >>

\* a treated host whose particles are asked for their traits one by one
InitTraitQuery == Init /\ host = "TreatedPatient"

NextTraitQuery ==
    \/ IsResistantTo
    \/ Resume

SpecTraitQuery == InitTraitQuery /\ [][NextTraitQuery]_vars

\* ------------------------------------------------ reading the histories
UpdateReturned ==
    pc = "returned" /\ ret.op = "update" /\ ret.status = "returned"
UpdateRaised ==
    pc = "returned" /\ ret.op = "update" /\ ret.status # "returned"

IdsOf(list) == { list[k].id : k \in DOMAIN list }
IdSeq(list) == [k \in DOMAIN list |-> list[k].id]

\* identities of the particles whose doesClear call returned True
ClearedIds == { clearCalls[k].virus :
                    k \in { j \in DOMAIN clearCalls : clearCalls[j].cleared } }
IsSurvivor(virus) == virus.id \notin ClearedIds
\* the particles of the population the update started with that did not clear
Survivors == SelectSeq(pre, IsSurvivor)

HasChild(call) == call.child # None
ChildOf(call) == call.child[1]
CallsWithChild == SelectSeq(reproduceCalls, HasChild)
\* the offspring of the step, in the order they were produced
Offspring == [k \in DOMAIN CallsWithChild |-> ChildOf(CallsWithChild[k])]
\* the particles reproduce was called on, in call order
Callers == [k \in DOMAIN reproduceCalls |-> reproduceCalls[k].virus]

\* ------------------------------------------------------------------ C1
\* C1: when update() returns, the population is exactly the survivors of
\* this step followed by the offspring of this step; every particle of the
\* starting population got one doesClear call and nothing else did; every
\* survivor got exactly one reproduce call and nothing else did (no cleared
\* particle, no offspring of this step); the offspring are new objects; and
\* the returned integer is the size of the new population.
C1_UpdateIsSurvivorsPlusOffspring ==
    UpdateReturned =>
        /\ viruses = Survivors \o Offspring
        /\ [k \in DOMAIN clearCalls |-> clearCalls[k].virus] = IdSeq(pre)
        /\ Callers = Survivors
        /\ \A k \in DOMAIN Offspring :
              /\ Offspring[k].id \notin IdsOf(pre)
              /\ \A j \in DOMAIN Offspring :
                    Offspring[j].id = Offspring[k].id => j = k
        /\ Len(Offspring) <= Len(Survivors)
        /\ ret.value = Len(Survivors) + Len(Offspring)
        /\ ret.value = Len(viruses)

\* an update returned in which a particle cleared, a survivor reproduced
\* and another survivor did not
C1_Witness ==
    /\ UpdateReturned
    /\ ClearedIds # {}
    /\ Offspring # << >>
    /\ Len(Offspring) < Len(Survivors)

\* ------------------------------------------------------------------ C2
\* C2: every reproduce call of one update() receives the same popDensity,
\* and it is (number of particles left after the clearance phase) / maxPop,
\* whatever was cleared before and whatever offspring were staged meanwhile.
C2_DensityFixedFromSurvivors ==
    (pc = "reproduction" \/ UpdateReturned) =>
        \A k \in DOMAIN reproduceCalls :
            /\ reproduceCalls[k].popDensity.den > 0
            /\ reproduceCalls[k].popDensity.num * maxPop
                  = (Len(pre) - Cardinality(ClearedIds))
                        * reproduceCalls[k].popDensity.den
            /\ RatEq(reproduceCalls[k].popDensity, reproduceCalls[1].popDensity)

\* an update in which a particle cleared and a reproduce call was made after
\* an offspring had been staged
C2_Witness ==
    /\ UpdateReturned
    /\ ClearedIds # {}
    /\ \E k \in DOMAIN reproduceCalls :
          k < Len(reproduceCalls) /\ HasChild(reproduceCalls[k])

\* ------------------------------------------------------------------ C3
FoundersNeitherClearNorBreed ==
    \A k \in DOMAIN founders :
        founders[k].clearProb = 0 /\ founders[k].maxBirthProb = 0

\* C3: on a host with maxPop > 0 whose particles all have clearProb = 0 and
\* maxBirthProb = 0, the population keeps its initial size over every
\* sequence of update() calls, for every value of the draws: no doesClear
\* call returns True and no reproduce call returns an offspring.
C3_ZeroProbsKeepPopulation ==
    (maxPop > 0 /\ FoundersNeitherClearNorBreed) =>
        /\ ClearedIds = {}
        /\ Offspring = << >>
        /\ (pc \in {"ready", "returned"} => Len(viruses) = Len(founders))

\* ------------------------------------------------------------------ C4
\* C4: a reproduce call on a particle with maxBirthProb > 0 and
\* popDensity >= 1 signals no offspring, for every value of the draw; so an
\* update() whose survivors number maxPop or more adds no offspring.
C4_NoOffspringAtFullDensity ==
    /\ \A k \in DOMAIN reproduceCalls :
          (reproduceCalls[k].virus.maxBirthProb > 0
             /\ RatGeqOne(reproduceCalls[k].popDensity))
          => ~HasChild(reproduceCalls[k])
    /\ (UpdateReturned /\ maxPop > 0 /\ Len(Survivors) >= maxPop
          /\ \A k \in DOMAIN Survivors : Survivors[k].maxBirthProb > 0)
       => Offspring = << >>

\* ------------------------------------------------------------------ C5
\* C5: no host with maxPop <= 0 exists on which update() can be called:
\* whenever update() is running, maxPop > 0.
C5_NoUpdateOnNonPositiveMaxPop ==
    pc \in {"clearance", "density", "reproduction"} => maxPop > 0

\* ------------------------------------------------------------------ C6
\* C6: update() is atomic: a call that returns has applied clearance,
\* reproduction and commit, and a call that fails leaves the population
\* exactly as it was before the call.
C6_UpdateIsAtomic ==
    /\ UpdateReturned => viruses = Survivors \o Offspring
    /\ UpdateRaised => viruses = pre

\* ------------------------------------------------------------------ C7
\* the particle is resistant to the drug: its trait map says True for it
ResistantTo(virus, drug) ==
    drug \in DOMAIN virus.resistances /\ virus.resistances[drug]

\* C7: a reproduce call of a resistant particle whose activeDrugs list holds
\* at least one drug the particle is not resistant to signals no offspring,
\* whatever popDensity, maxBirthProb, the draws and the rest of the list.
C7_DrugGateBlocks ==
    host = "TreatedPatient" =>
        \A k \in DOMAIN reproduceCalls :
            (\E j \in DOMAIN reproduceCalls[k].activeDrugs :
                ~ResistantTo(reproduceCalls[k].virus,
                             reproduceCalls[k].activeDrugs[j]))
            => ~HasChild(reproduceCalls[k])

\* a blocked call: two active drugs, the particle resistant to the last one
\* only, with maxBirthProb = 1 and room left in the host
C7_Witness ==
    /\ host = "TreatedPatient"
    /\ \E k \in DOMAIN reproduceCalls :
          LET call == reproduceCalls[k] IN
          /\ Len(call.activeDrugs) = 2
          /\ ~ResistantTo(call.virus, call.activeDrugs[1])
          /\ call.activeDrugs[1] \in DOMAIN call.virus.resistances
          /\ ResistantTo(call.virus, call.activeDrugs[2])
          /\ call.virus.maxBirthProb = Den
          /\ call.popDensity.num < call.popDensity.den
          /\ ~HasChild(call)

\* ------------------------------------------------------------------ C8
\* C8: when a resistant particle with mutProb = 1 reproduces, the trait map
\* of the offspring has the keys of the parent's map and, for every key, the
\* negation of the parent's value, for every value of the mutation draws.
C8_MutProbOneNegatesTraits ==
    host = "TreatedPatient" =>
        \A k \in DOMAIN reproduceCalls :
            (reproduceCalls[k].virus.mutProb = Den /\ HasChild(reproduceCalls[k]))
            => /\ DOMAIN ChildOf(reproduceCalls[k]).resistances
                    = DOMAIN reproduceCalls[k].virus.resistances
               /\ \A drug \in DOMAIN reproduceCalls[k].virus.resistances :
                     ChildOf(reproduceCalls[k]).resistances[drug]
                        = ~reproduceCalls[k].virus.resistances[drug]

\* a particle with mutProb = 1 and one trait of each value has reproduced
C8_Witness ==
    /\ host = "TreatedPatient"
    /\ \E k \in DOMAIN reproduceCalls :
          /\ reproduceCalls[k].virus.mutProb = Den
          /\ HasChild(reproduceCalls[k])
          /\ \E d1, d2 \in DOMAIN reproduceCalls[k].virus.resistances :
                /\ reproduceCalls[k].virus.resistances[d1]
                /\ ~reproduceCalls[k].virus.resistances[d2]

\* ------------------------------------------------------------------ C9
\* the founder a particle descends from, through the parents of its line
RECURSIVE FounderIdOf(_)
FounderIdOf(i) == IF i \in DOMAIN parent THEN FounderIdOf(parent[i]) ELSE i
FounderOf(virus) == founders[FounderIdOf(virus.id)]

InheritsFromFounder(virus) ==
    /\ virus.maxBirthProb = FounderOf(virus).maxBirthProb
    /\ virus.clearProb = FounderOf(virus).clearProb
    /\ host = "TreatedPatient" =>
          /\ virus.mutProb = FounderOf(virus).mutProb
          /\ DOMAIN virus.resistances = DOMAIN FounderOf(virus).resistances

\* C9: every particle of the population (and every particle update() holds
\* in its survivor and offspring lists) has the maxBirthProb and clearProb
\* and, if resistant, the mutProb and the drug keys of the founder it
\* descends from.
C9_OffspringInheritParameters ==
    /\ \A k \in DOMAIN viruses : InheritsFromFounder(viruses[k])
    /\ \A k \in DOMAIN viruses_survived : InheritsFromFounder(viruses_survived[k])
    /\ \A k \in DOMAIN viruses_produced : InheritsFromFounder(viruses_produced[k])

\* the population holds the offspring of an offspring, and one of its traits
\* differs from its founder's
C9_Witness ==
    /\ pc = "ready"
    /\ host = "TreatedPatient"
    /\ \E k \in DOMAIN viruses :
          /\ viruses[k].id \in DOMAIN parent
          /\ parent[viruses[k].id] \in DOMAIN parent
          /\ \E drug \in DOMAIN viruses[k].resistances :
                viruses[k].resistances[drug]
                    # FounderOf(viruses[k]).resistances[drug]

\* ----------------------------------------------------------------- C10
GetResistPopReturned == pc = "returned" /\ ret.op = "getResistPop"

\* the particles of the population resistant to every drug of the list
ResistantToAll(drugList) ==
    { k \in DOMAIN viruses :
        \A j \in DOMAIN drugList : ResistantTo(viruses[k], drugList[j]) }

\* C10: getResistPop(drugList) returns the number of particles of the current
\* population that are resistant to every drug of a non-empty drugList, and 0
\* for the empty list; the call changes neither the population nor the
\* prescriptions.
C10_GetResistPopCounts ==
    /\ [](GetResistPopReturned =>
            ret.value = IF ret.arg = << >> THEN 0
                        ELSE Cardinality(ResistantToAll(ret.arg)))
    /\ [][GetResistPopReturned' =>
            (viruses' = viruses /\ prescriptions' = prescriptions)]_vars

\* a query for both drugs that counted one particle and left one out
C10_Witness ==
    /\ GetResistPopReturned
    /\ Len(ret.arg) = 2
    /\ ret.arg[1] # ret.arg[2]
    /\ ret.value > 0
    /\ ret.value < Len(viruses)

\* ----------------------------------------------------------------- C11
AddPrescriptionReturned == pc = "returned" /\ ret.op = "addPrescription"
Prescribed == { prescriptions[k] : k \in DOMAIN prescriptions }

\* C11: the prescriptions start empty and never hold a drug twice; a step
\* that is not addPrescription (update() among them) leaves them unchanged;
\* addPrescription of a drug already present leaves them unchanged, and
\* addPrescription of a new drug appends exactly that drug; so every drug
\* ever prescribed stays in the list, once.
C11_PrescriptionsGrowWithoutDuplicates ==
    /\ prescriptions = << >>
    /\ [](Cardinality(Prescribed) = Len(prescriptions))
    /\ [][IF AddPrescriptionReturned' /\ pc = "ready"
          THEN /\ ret'.arg[1] \in Prescribed'
               /\ IF ret'.arg[1] \in Prescribed
                  THEN prescriptions' = prescriptions
                  ELSE prescriptions' = Append(prescriptions, ret'.arg[1])
          ELSE prescriptions' = prescriptions]_vars

\* addPrescription has just returned for a drug that was prescribed before
\* another one: the list still holds the two drugs, each once
C11_Witness ==
    /\ AddPrescriptionReturned
    /\ Len(prescriptions) = 2
    /\ prescriptions[1] = ret.arg[1]
    /\ prescriptions[2] # ret.arg[1]

\* ----------------------------------------------------------------- C12
FoundersAlwaysClear ==
    \A k \in DOMAIN founders : founders[k].clearProb = Den

\* C12: on a host with maxPop > 0 whose particles all have clearProb = 1,
\* an update() clears every particle, makes no reproduce call and returns 0,
\* for every value of the draws and every maxBirthProb.
C12_ClearProbOneEmptiesPopulation ==
    (maxPop > 0 /\ FoundersAlwaysClear) =>
        /\ \A k \in DOMAIN clearCalls : clearCalls[k].cleared
        /\ reproduceCalls = << >>
        /\ (pc = "returned" /\ ret.op = "update") =>
              /\ ret.status = "returned"
              /\ ret.value = 0
              /\ viruses = << >>

\* an update() has returned on a host that held particles with clearProb = 1
\* and maxBirthProb = 1
C12_Witness ==
    /\ UpdateReturned
    /\ maxPop > 0
    /\ FoundersAlwaysClear
    /\ Len(pre) >= 2
    /\ \A k \in DOMAIN pre : pre[k].maxBirthProb = Den

\* ----------------------------------------------------------------- C13
IsResistantToReturned == pc = "returned" /\ ret.op = "isResistantTo"

NoneResistantTo(list, drug) ==
    \A k \in DOMAIN list : ~ResistantTo(list[k], drug)

\* the drug is prescribed and no particle the host holds is resistant to it
SuppressedBy(drug) ==
    /\ host = "TreatedPatient"
    /\ drug \in Prescribed
    /\ NoneResistantTo(viruses, drug)
    /\ NoneResistantTo(viruses_survived, drug)
    /\ NoneResistantTo(viruses_produced, drug)

\* C14: once a drug is prescribed and no particle of the population is
\* resistant to it, this stays so over every further step of update and
\* addPrescription, no step makes the population larger, and every update()
\* that returns gives a size that is at most the size before it.
C14_SuppressedPopulationOnlyShrinks ==
    /\ [][\A drug \in Drugs :
            SuppressedBy(drug) =>
                (SuppressedBy(drug)' /\ Len(viruses') <= Len(viruses))]_vars
    /\ [](\A drug \in Drugs :
            (/\ pc = "returned" /\ ret.op = "update"
             /\ host = "TreatedPatient" /\ drug \in Prescribed
             /\ NoneResistantTo(pre, drug)) =>
                /\ SuppressedBy(drug)
                /\ Len(viruses) <= Len(pre)
                /\ Offspring = << >>
                /\ (ret.status = "returned" => ret.value <= Len(pre)))

\* an update() has returned under a prescribed drug nobody is resistant to:
\* a survivor with maxBirthProb = 1 and room in the host had no offspring
C14_Witness ==
    /\ UpdateReturned
    /\ \E drug \in Drugs :
          /\ SuppressedBy(drug)
          /\ NoneResistantTo(pre, drug)
    /\ \E k \in DOMAIN reproduceCalls :
          /\ reproduceCalls[k].virus.maxBirthProb = Den
          /\ reproduceCalls[k].popDensity.num < reproduceCalls[k].popDensity.den
          /\ ~HasChild(reproduceCalls[k])

\* ----------------------------------------------------------------- C15
\* the particle with every missing drug name entered as a False trait
WithFalseTraits(virus) ==
    [virus EXCEPT !.resistances =
        [drug \in Drugs |-> ResistantTo(virus, drug)]]

WithFalseTraitsAll(list) == [k \in DOMAIN list |-> WithFalseTraits(list[k])]

HasTrait(virus, drug) == drug \in DOMAIN virus.resistances

\* the call had an active drug that is not a key of the caller's trait map
UnknownDrugActive(call) ==
    \E j \in DOMAIN call.activeDrugs :
        ~HasTrait(call.virus, call.activeDrugs[j])

\* C15: a drug name that is not a key of a particle's trait map acts like a
\* False trait: a reproduce call with such a drug in activeDrugs has no
\* offspring, for every draw the call gets past the gate and the draw exactly
\* when it does for the caller with the missing names entered as False, and
\* getResistPop
\* returns the count it returns on the population completed in that way, so a
\* particle lacking a drug of a non-empty drugList is not counted.
C15_MissingTraitActsAsFalse ==
    /\ host = "TreatedPatient" =>
          \A k \in DOMAIN reproduceCalls :
             LET call == reproduceCalls[k]
             IN  /\ UnknownDrugActive(call) => ~HasChild(call)
                 /\ \A d \in Draws :
                       ResistantReproduces(call.virus, call.popDensity,
                                           call.activeDrugs, d)
                       <=>
                       ResistantReproduces(WithFalseTraits(call.virus),
                                           call.popDensity,
                                           call.activeDrugs, d)
    /\ GetResistPopReturned =>
          /\ ret.value = getResistPop(WithFalseTraitsAll(viruses), ret.arg, 0)
          /\ ret.value <=
                Cardinality({ k \in DOMAIN viruses :
                    \A j \in DOMAIN ret.arg :
                        HasTrait(viruses[k], ret.arg[j]) })

\* a reproduce call that only the unknown drug could block: the caller is
\* resistant to every active drug it has a trait for, has maxBirthProb = 1
\* and room in the host, and still had no offspring
C15_Witness ==
    /\ host = "TreatedPatient"
    /\ \E k \in DOMAIN reproduceCalls :
          LET call == reproduceCalls[k]
          IN  /\ UnknownDrugActive(call)
              /\ \E j \in DOMAIN call.activeDrugs :
                    ResistantTo(call.virus, call.activeDrugs[j])
              /\ \A j \in DOMAIN call.activeDrugs :
                    HasTrait(call.virus, call.activeDrugs[j]) =>
                        ResistantTo(call.virus, call.activeDrugs[j])
              /\ call.virus.maxBirthProb = Den
              /\ call.popDensity.num < call.popDensity.den
              /\ ~HasChild(call)

\* a getResistPop query that left out a particle only for a missing name
C15_QueryLeavesOutMissingName ==
    /\ GetResistPopReturned
    /\ ret.value < Len(viruses)
    /\ \A k \in DOMAIN viruses : \A j \in DOMAIN ret.arg :
          HasTrait(viruses[k], ret.arg[j]) =>
              ResistantTo(viruses[k], ret.arg[j])
    /\ ret.arg # << >>

\* ----------------------------------------------------------------- C16
\* every particle object the host or a running update() holds
Existing ==
    IdsOf(viruses) \cup IdsOf(viruses_survived) \cup IdsOf(viruses_produced)

\* the particle with identity i, as the host and the running update() see it
Seen(i) ==
    { viruses[k] : k \in { j \in DOMAIN viruses : viruses[j].id = i } }
    \cup { viruses_survived[k] :
             k \in { j \in DOMAIN viruses_survived :
                       viruses_survived[j].id = i } }
    \cup { viruses_produced[k] :
             k \in { j \in DOMAIN viruses_produced :
                       viruses_produced[j].id = i } }

\* the particles that got their trait map from the dictionary of particle i:
\* its parent, its offspring, and the founders built from the same dictionary
FromSameMap(i, j) ==
    \/ (i \in DOMAIN parent /\ parent[i] = j)
    \/ (j \in DOMAIN parent /\ parent[j] = i)
    \/ (i \in IdsOf(founders) /\ j \in IdsOf(founders))

\* C16: no step of update, reproduce, doesClear, isResistantTo or getResistPop
\* changes maxBirthProb, clearProb, mutProb or the trait map of a particle
\* that exists before the step; a founder still in the population has the
\* values it was constructed with; and the trait map of an offspring is a
\* dictionary of its own, which no other particle holds.
C16_ParticlesNeverModified ==
    /\ [][\A i \in Existing : \A p \in Seen(i) : \A q \in Seen(i)' : q = p]_vars
    /\ [](\A i \in Existing : \A p \in Seen(i) :
            /\ \A k \in DOMAIN founders : founders[k].id = i => p = founders[k]
            /\ (host = "TreatedPatient" /\ i \in DOMAIN parent) =>
                  \A j \in Existing \ {i} : \A q \in Seen(j) :
                      q.resistancesId # p.resistancesId)

\* an offspring with a mutated trait map is in the population next to its
\* parent and another founder built from the same map, both with the map
\* they were constructed with
C16_Witness ==
    /\ UpdateReturned
    /\ host = "TreatedPatient"
    /\ \E i \in Existing, j \in Existing, l \in Existing :
          /\ i \in DOMAIN parent /\ parent[i] = j
          /\ l # j /\ FromSameMap(j, l) /\ l \in IdsOf(founders)
          /\ \E p \in Seen(i), q \in Seen(j), r \in Seen(l) :
                /\ p.resistances # q.resistances
                /\ DOMAIN q.resistances # {}
                /\ r.resistances = q.resistances
                /\ q.resistancesId = r.resistancesId

\* ----------------------------------------------------------------- C17
\* the reproduction loop of a running update() is about to call reproduce
AtReproduceCall == pc = "reproduction" /\ idx <= Len(viruses)

\* for every draw, the two reproduce methods agree on whether there is an
\* offspring
SameOffspringDecision(resistant, simple, density) ==
    \A d \in Draws :
        ResistantReproduces(resistant, density, << >>, d)
        <=> (SimpleReproduce(simple, density, d, nextId) # None)

\* the offspring of the two reproduce methods have the same identity,
\* maxBirthProb and clearProb, whatever the mutation loop draws
SameOffspringParameters(resistant, simple, density) ==
    \A d \in Draws, m \in [DOMAIN resistant.resistances -> Draws] :
        LET r == ResistantReproduce(resistant, density, << >>, d, m, nextId)
            s == SimpleReproduce(simple, density, d, nextId)
        IN  (r # None /\ s # None) =>
                  /\ r[1].maxBirthProb = s[1].maxBirthProb
                  /\ r[1].clearProb = s[1].clearProb
                  /\ r[1].id = s[1].id

\* C17: with no prescriptions the drug gate never blocks, so a treated host
\* steps like a basic host.  Whenever a treated host without prescriptions is
\* about to call reproduce, the call gives an offspring for exactly the draws
\* for which SimpleVirus.reproduce gives one for the same maxBirthProb and
\* popDensity, and the offspring has the same maxBirthProb and clearProb; whenever a basic host is about to call reproduce, the call of a
\* resistant particle with the same maxBirthProb and clearProb, any trait map
\* and any mutProb, gives an offspring for exactly the same draws; and no
\* reproduce call of a treated host without prescriptions was blocked by
\* the gate.  The clearance loop, the density and the final append are the
\* same code for both hosts.
C17_NoPrescriptionsActsAsBasicHost ==
    /\ (AtReproduceCall /\ host = "TreatedPatient" /\ prescriptions = << >>) =>
          /\ SameOffspringDecision(viruses[idx], viruses[idx], popDensity)
          /\ SameOffspringParameters(viruses[idx], viruses[idx], popDensity)
    /\ (AtReproduceCall /\ host = "Patient") =>
          \A resistances \in ResistanceMaps, mutProb \in Probs :
              SameOffspringDecision(
                  ResistantVirus(viruses[idx].id, viruses[idx].maxBirthProb,
                                 viruses[idx].clearProb, SharedResistancesId,
                                 resistances, mutProb),
                  viruses[idx], popDensity)
    /\ (host = "TreatedPatient" /\ prescriptions = << >>) =>
          \A k \in DOMAIN reproduceCalls :
              LET call == reproduceCalls[k]
              IN  /\ call.activeDrugs = << >>
                  /\ ~drugsAreEffective(call.virus, call.activeDrugs, FALSE)
                  /\ (\A d \in Draws :
                        DrawLeqRepProb(d, repProb(call.virus,
                                                  call.popDensity)))
                     => HasChild(call)

\* an update() of a treated host without prescriptions has returned with an
\* offspring of a particle that is resistant to no drug at all
C17_Witness ==
    /\ UpdateReturned
    /\ host = "TreatedPatient"
    /\ prescriptions = << >>
    /\ \E k \in DOMAIN reproduceCalls :
          LET call == reproduceCalls[k]
          IN  /\ HasChild(call)
              /\ DOMAIN call.virus.resistances = Drugs
              /\ \A drug \in Drugs : ~call.virus.resistances[drug]
    /\ ret.value > Len(pre)

\* ----------------------------------------------------------------- C18
\* an update() that began on an empty population has ended
UpdateOfExtinctEnded == pc = "returned" /\ ret.op = "update" /\ pre = << >>

\* C18: for a host with maxPop > 0, a step of update or addPrescription taken
\* with an empty population leaves it empty, and every update() that begins
\* on an empty population returns 0, without raising and without a doesClear
\* or reproduce call.
C18_ExtinctionIsAbsorbing ==
    /\ [][(maxPop > 0 /\ viruses = << >>) => viruses' = << >>]_vars
    /\ []((maxPop > 0 /\ UpdateOfExtinctEnded) =>
            /\ ret.status = "returned"
            /\ ret.value = 0
            /\ viruses = << >>
            /\ clearCalls = << >>
            /\ reproduceCalls = << >>)

\* the population of a treated host died out, a drug was prescribed, and a
\* later update() returned 0
C18_Witness ==
    /\ UpdateOfExtinctEnded
    /\ maxPop > 0
    /\ founders # << >>
    /\ host = "TreatedPatient"
    /\ prescriptions # << >>
    /\ ret.value = 0

====
